---- MODULE Spec2Model ----
(***************************************************************************)
(* A model of the objc-nullability-annotator clang-tidy check              *)
(* (clang-tools-extra/clang-tidy/objc/NullabilityAnnotatorCheck.cpp).      *)
(*                                                                         *)
(* The check is invoked by the AST matcher once per matched declaration.   *)
(* For a function or method it collects return statements with a           *)
(* RecursiveASTVisitor, classifies each one and folds the classifications  *)
(* with clang::hasWeakerNullability; what it finds is written to           *)
(* llvm::errs().                                                           *)
(*                                                                         *)
(* The AST is the input.  An expression is a chain of wrapper nodes around *)
(* a core node; a body is a tree of statements; an entity is a chain of    *)
(* redeclarations.  The queries the check makes of the AST (hasBody,       *)
(* isCanonicalDecl, redecls, IgnoreCasts, isNullPointerConstant,           *)
(* getNullability) are clang's, not this file's; they are modelled as      *)
(* attributes of the input.                                                *)
(***************************************************************************)
EXTENDS Naturals, Sequences, FiniteSets, TLC

VARIABLES
    chain,               \* the redeclaration chain of the entity being analysed
    declKind,            \* the matcher binding of its declarations: fd, omd, vd, opd
    ReturnStatements,    \* check(): the local ReturnStatements of the last call
    WeakestNullability,  \* check(): the local WeakestNullability of the last call
    errs,                \* llvm::errs(): errs[n] is what the n-th call of check() wrote
    Collected,           \* Collected[n]: the return statements the n-th call collected
    NDEBUG,              \* the build: TRUE when assertions are compiled out
    fn,                  \* the function applied when one function is exercised alone
    arg,                 \* its argument
    ret                  \* its result

vars ==
    <<chain, declKind, ReturnStatements, WeakestNullability, errs, Collected, NDEBUG,
      fn, arg, ret>>

(***************************************************************************)
(* Bounds of the model.                                                    *)
(***************************************************************************)
MaxDecls == 3      \* redeclarations of one entity
MaxNodes == 2      \* statement nodes in all the bodies of one chain
MaxWrap == 2       \* wrapper nodes around one returned expression
MaxReturns == 3    \* return statements handed to the fold when exercised alone
MaxTreeNodes == 3  \* statement nodes of a body when the collector is exercised alone
MaxDepth == 4      \* wrapper nodes around an expression when the stripping is exercised alone

(***************************************************************************)
(* clang::NullabilityKind and clang::hasWeakerNullability.                 *)
(* The enumerators are compared by their numeric value, in the order       *)
(* NonNull, Nullable, Unspecified, NullableResult: a larger value is a     *)
(* weaker nullability.                                                     *)
(* The check's own documentation states the effect: the fold starts from   *)
(* the "strongest" nullability, NonNull, and "The weakest nullability      *)
(* wins.  This means we will end up with NullabilityKind::Unassigned if    *)
(* there's any branch that lacks enough information."                      *)
(***************************************************************************)
NullabilityKind == {"NonNull", "Nullable", "Unspecified", "NullableResult"}

NullabilityRank(K) ==
    CASE K = "NonNull" -> 0
      [] K = "Nullable" -> 1
      [] K = "Unspecified" -> 2
      [] K = "NullableResult" -> 3

hasWeakerNullability(L, R) == NullabilityRank(L) > NullabilityRank(R)

\* std::nullopt of std::optional<NullabilityKind>
NoVerdict == "nullopt"

(***************************************************************************)
(* Expressions.  wrappers lists the wrapper nodes from the outermost in;   *)
(* cls is the class of the core node; annot is the nullability of the      *)
(* core's type (of the call's return type for a call or message), "None"   *)
(* when the type carries none; npc is the answer of                        *)
(* Expr::isNullPointerConstant; val is the value of an IntegerLiteral.     *)
(***************************************************************************)
WrapperKinds ==
    {"ImplicitCastExpr", "CStyleCastExpr", "ExprWithCleanups",
     "MaterializeTemporaryExpr"}

Annotations == NullabilityKind \cup {"None"}

MkExpr(W, C, A, N, V) ==
    [wrappers |-> W, cls |-> C, annot |-> A, npc |-> N, val |-> V]

\* a null Expr pointer
NoExpr == MkExpr(<<>>, "null", "None", FALSE, 1)

Cores ==
    {MkExpr(<<>>, "IntegerLiteral", "None", TRUE, 0),
     MkExpr(<<>>, "IntegerLiteral", "None", FALSE, 1),
     MkExpr(<<>>, "GNUNullExpr", "None", TRUE, 0),
     MkExpr(<<>>, "CXXNullPtrLiteralExpr", "None", TRUE, 0),
     MkExpr(<<>>, "ObjCStringLiteral", "None", FALSE, 1)}
    \cup {MkExpr(<<>>, C, A, FALSE, 1) :
            C \in {"ObjCMessageExpr", "DeclRefExpr", "CallExpr"}, A \in Annotations}
    \cup {MkExpr(<<>>, "OtherExpr", "None", N, 1) : N \in BOOLEAN}

RECURSIVE WrapperChains(_)
WrapperChains(n) ==
    IF n = 0 THEN {<<>>}
    ELSE LET S == WrapperChains(n - 1)
         IN  S \cup {<<w>> \o s : w \in WrapperKinds, s \in {t \in S : Len(t) = n - 1}}

Exprs == {[c EXCEPT !.wrappers = w] : c \in Cores, w \in WrapperChains(MaxWrap)}

\* the class of the node an Expr pointer points to (what dyn_cast and isa test)
NodeClass(E) == IF E.wrappers = <<>> THEN E.cls ELSE Head(E.wrappers)

\* getSubExpr() of a wrapper node
SubExpr(E) == [E EXCEPT !.wrappers = Tail(@)]

(***************************************************************************)
(* clang::Expr::IgnoreCasts: skips CastExpr, FullExpr and                  *)
(* MaterializeTemporaryExpr nodes until a fixed point.                     *)
(***************************************************************************)
RECURSIVE IgnoreCasts(_)
IgnoreCasts(E) ==
    IF NodeClass(E) \in {"ImplicitCastExpr", "CStyleCastExpr", "ExprWithCleanups",
                         "MaterializeTemporaryExpr"}
    THEN IgnoreCasts(SubExpr(E))
    ELSE E

(***************************************************************************)
(* clang::Expr::IgnoreImpCasts: skips ImplicitCastExpr and FullExpr nodes  *)
(* until a fixed point.                                                    *)
(***************************************************************************)
RECURSIVE IgnoreImpCasts(_)
IgnoreImpCasts(E) ==
    IF NodeClass(E) \in {"ImplicitCastExpr", "ExprWithCleanups"}
    THEN IgnoreImpCasts(SubExpr(E))
    ELSE E

(***************************************************************************)
(* clang::CastExpr::getSubExprAsWritten: the operand of a cast, past a     *)
(* temporary materialization and any further implicit casts.               *)
(***************************************************************************)
RECURSIVE getSubExprAsWritten(_)
getSubExprAsWritten(E) ==
    LET S == SubExpr(E)
        T == IF NodeClass(S) = "MaterializeTemporaryExpr" THEN SubExpr(S) ELSE S
    IN  IF NodeClass(T) = "ImplicitCastExpr" THEN getSubExprAsWritten(T) ELSE T

RECURSIVE StripImplicitCastsAsWritten(_)
StripImplicitCastsAsWritten(E) ==
    IF NodeClass(E) = "ImplicitCastExpr"
    THEN StripImplicitCastsAsWritten(getSubExprAsWritten(E))
    ELSE E

(***************************************************************************)
(* getInnermostExpr.  (The note it writes to llvm::errs() when the         *)
(* expression left by IgnoreCasts is an ExprWithCleanups is not modelled:  *)
(* IgnoreCasts leaves none.)                                               *)
(***************************************************************************)
\* getInnermostExpr without the cast-ignoring fixed point it starts with
RECURSIVE getInnermostExpr_OnePass(_)
getInnermostExpr_OnePass(Exp) ==
    LET E1 == IgnoreImpCasts(Exp)
        E2 == IF NodeClass(E1) = "ExprWithCleanups" THEN SubExpr(E1) ELSE E1
        E3 == IF NodeClass(E2) = "ImplicitCastExpr"
              THEN getInnermostExpr_OnePass(IgnoreImpCasts(E2))
              ELSE E2
        E4 == IF NodeClass(E3) = "MaterializeTemporaryExpr" THEN SubExpr(E3) ELSE E3
    IN  StripImplicitCastsAsWritten(E4)

RECURSIVE getInnermostExpr(_)
getInnermostExpr(Exp) ==
    LET E1 == IgnoreImpCasts(IgnoreCasts(Exp))
        E2 == IF NodeClass(E1) = "ExprWithCleanups" THEN SubExpr(E1) ELSE E1
        E3 == IF NodeClass(E2) = "ImplicitCastExpr"
              THEN getInnermostExpr(IgnoreImpCasts(E2))
              ELSE E2
        E4 == IF NodeClass(E3) = "MaterializeTemporaryExpr" THEN SubExpr(E3) ELSE E3
    IN  StripImplicitCastsAsWritten(E4)

\* clang::Expr::isNullPointerConstant(...) != NPCK_NotNull
isNullPointerConstant(E) == E.npc

isSomeKindOfNil(E) ==
    IF E = NoExpr THEN FALSE
    ELSE \/ isNullPointerConstant(E)
         \/ (NodeClass(E) = "IntegerLiteral" /\ E.val = 0)
         \/ NodeClass(E) = "GNUNullExpr"
         \/ NodeClass(E) = "CXXNullPtrLiteralExpr"

\* QualType::getNullability() of the type of E, resp. of its call return type
getNullability(E) == E.annot

(***************************************************************************)
(* Return statements.  A ReturnStmt pointer is null, or points to the      *)
(* statement at loc (the declaration's index in the chain, then the path   *)
(* of child indices in its body), whose operand is rv (NoExpr for a bare   *)
(* return).                                                                *)
(***************************************************************************)
MkReturn(L, RV) == [null |-> FALSE, loc |-> L, rv |-> RV]

NullReturnStmt == [null |-> TRUE, loc |-> <<>>, rv |-> NoExpr]

getNullabilityOfReturnStmt_IgnoresDeclRef(RS) ==
    IF RS.null THEN "Unspecified"
    ELSE LET RV == RS.rv
             RVIgnoringCasts == getInnermostExpr(RV)
         IN  IF RV = NoExpr THEN "Unspecified"
             ELSE IF \/ (RVIgnoringCasts # NoExpr /\ isSomeKindOfNil(RVIgnoringCasts))
                     \/ isSomeKindOfNil(RV)
                  THEN "Nullable"
             ELSE IF \/ NodeClass(RV) = "ObjCStringLiteral"
                     \/ NodeClass(RVIgnoringCasts) = "ObjCStringLiteral"
                  THEN "NonNull"
             ELSE IF /\ NodeClass(RVIgnoringCasts) = "ObjCMessageExpr"
                     /\ getNullability(RVIgnoringCasts) # "None"
                  THEN getNullability(RVIgnoringCasts)
             ELSE IF /\ NodeClass(RVIgnoringCasts) = "CallExpr"
                     /\ getNullability(RVIgnoringCasts) # "None"
                  THEN getNullability(RVIgnoringCasts)
             ELSE "Unspecified"

\* the classifier that takes a bare return for the neutral element of the fold
getNullabilityOfReturnStmt_BareReturnNeutral(RS) ==
    IF RS.null THEN "Unspecified"
    ELSE LET RV == RS.rv
             RVIgnoringCasts == getInnermostExpr(RV)
         IN  IF RV = NoExpr THEN "NonNull"
             ELSE IF \/ (RVIgnoringCasts # NoExpr /\ isSomeKindOfNil(RVIgnoringCasts))
                     \/ isSomeKindOfNil(RV)
                  THEN "Nullable"
             ELSE IF \/ NodeClass(RV) = "ObjCStringLiteral"
                     \/ NodeClass(RVIgnoringCasts) = "ObjCStringLiteral"
                  THEN "NonNull"
             ELSE IF /\ NodeClass(RVIgnoringCasts) = "ObjCMessageExpr"
                     /\ getNullability(RVIgnoringCasts) # "None"
                  THEN getNullability(RVIgnoringCasts)
             ELSE IF /\ NodeClass(RVIgnoringCasts) = "DeclRefExpr"
                     /\ getNullability(RVIgnoringCasts) # "None"
                  THEN getNullability(RVIgnoringCasts)
             ELSE IF /\ NodeClass(RVIgnoringCasts) = "CallExpr"
                     /\ getNullability(RVIgnoringCasts) # "None"
                  THEN getNullability(RVIgnoringCasts)
             ELSE "Unspecified"

getNullabilityOfReturnStmt(RS) ==
    IF RS.null THEN "Unspecified"
    ELSE LET RV == RS.rv
             RVIgnoringCasts == getInnermostExpr(RV)
         IN  IF RV = NoExpr THEN "Unspecified"
             ELSE IF \/ (RVIgnoringCasts # NoExpr /\ isSomeKindOfNil(RVIgnoringCasts))
                     \/ isSomeKindOfNil(RV)
                  THEN "Nullable"
             ELSE IF \/ NodeClass(RV) = "ObjCStringLiteral"
                     \/ NodeClass(RVIgnoringCasts) = "ObjCStringLiteral"
                  THEN "NonNull"
             ELSE IF /\ NodeClass(RVIgnoringCasts) = "ObjCMessageExpr"
                     /\ getNullability(RVIgnoringCasts) # "None"
                  THEN getNullability(RVIgnoringCasts)
             ELSE IF /\ NodeClass(RVIgnoringCasts) = "DeclRefExpr"
                     /\ getNullability(RVIgnoringCasts) # "None"
                  THEN getNullability(RVIgnoringCasts)
             ELSE IF /\ NodeClass(RVIgnoringCasts) = "CallExpr"
                     /\ getNullability(RVIgnoringCasts) # "None"
                  THEN getNullability(RVIgnoringCasts)
             ELSE "Unspecified"

\* what getNullabilityOfReturnStmt writes to llvm::errs()
getNullabilityOfReturnStmtLog(RS) ==
    IF RS.null
    THEN <<[msg |-> "expected a ReturnStmt pointer, got nullptr",
            name |-> "", nk |-> NoVerdict]>>
    ELSE <<>>

(***************************************************************************)
(* getWeakestNullabilityForReturnStatements: std::nullopt for no return    *)
(* statements, else the fold from NonNull that keeps the weaker of the     *)
(* accumulator and each statement's nullability.                           *)
(***************************************************************************)
RECURSIVE WeakestFrom(_, _, _)
WeakestFrom(NK, Stmts, i) ==
    IF i > Len(Stmts) THEN NK
    ELSE LET NRS == getNullabilityOfReturnStmt(Stmts[i])
         IN  WeakestFrom(IF hasWeakerNullability(NRS, NK) THEN NRS ELSE NK, Stmts, i + 1)

\* the fold with Nullable taken for the weakest kind
RECURSIVE WeakestFrom_NullableWeakest(_, _, _)
WeakestFrom_NullableWeakest(NK, Stmts, i) ==
    IF i > Len(Stmts) THEN NK
    ELSE LET NRS == getNullabilityOfReturnStmt(Stmts[i])
             Weaker == \/ NRS = "Nullable" /\ NK # "Nullable"
                       \/ NRS = "Unspecified" /\ NK = "NonNull"
         IN  WeakestFrom_NullableWeakest(IF Weaker THEN NRS ELSE NK, Stmts, i + 1)

getWeakest_NullableWeakest(Stmts) ==
    IF Stmts = <<>> THEN NoVerdict
    ELSE WeakestFrom_NullableWeakest("NonNull", Stmts, 1)

\* the fold with the operands of the comparison exchanged
RECURSIVE WeakestFrom_Exchanged(_, _, _)
WeakestFrom_Exchanged(NK, Stmts, i) ==
    IF i > Len(Stmts) THEN NK
    ELSE LET NRS == getNullabilityOfReturnStmt(Stmts[i])
         IN  WeakestFrom_Exchanged(IF hasWeakerNullability(NK, NRS) THEN NRS ELSE NK,
                                   Stmts, i + 1)

getWeakest_Exchanged(Stmts) ==
    IF Stmts = <<>> THEN NoVerdict
    ELSE WeakestFrom_Exchanged("NonNull", Stmts, 1)

\* the fold that keeps the last statement's nullability
getWeakest_LastWins(Stmts) ==
    IF Stmts = <<>> THEN NoVerdict
    ELSE getNullabilityOfReturnStmt(Stmts[Len(Stmts)])

\* the fold that answers Unspecified for no return statements
getWeakest_UnspecifiedForNone(Stmts) ==
    IF Stmts = <<>> THEN "Unspecified"
    ELSE WeakestFrom("NonNull", Stmts, 1)

\* the fold that gives up at the first null pointer it meets
RECURSIVE WeakestFrom_StopsAtNull(_, _, _)
WeakestFrom_StopsAtNull(NK, Stmts, i) ==
    IF i > Len(Stmts) \/ Stmts[i].null THEN NK
    ELSE LET NRS == getNullabilityOfReturnStmt(Stmts[i])
         IN  WeakestFrom_StopsAtNull(IF hasWeakerNullability(NRS, NK) THEN NRS ELSE NK,
                                     Stmts, i + 1)

getWeakest_StopsAtNull(Stmts) ==
    IF Stmts = <<>> THEN NoVerdict
    ELSE WeakestFrom_StopsAtNull("NonNull", Stmts, 1)

getWeakestNullabilityForReturnStatements(Stmts) ==
    IF Stmts = <<>> THEN NoVerdict
    ELSE WeakestFrom("NonNull", Stmts, 1)

\* what the fold's calls of getNullabilityOfReturnStmt write to llvm::errs()
RECURSIVE getWeakestLog(_, _)
getWeakestLog(Stmts, i) ==
    IF i > Len(Stmts) THEN <<>>
    ELSE getNullabilityOfReturnStmtLog(Stmts[i]) \o getWeakestLog(Stmts, i + 1)

(***************************************************************************)
(* Statements.  k is the class of the node, rv the operand of a            *)
(* ReturnStmt, kids the statements nested in the node.  A BlockExpr or a   *)
(* LambdaExpr node is a closure literal; its kids are the closure's body.  *)
(***************************************************************************)
MkStmt(K, RV, Kids) == [k |-> K, rv |-> RV, kids |-> Kids]

ClosureKinds == {"BlockExpr", "LambdaExpr"}

NestKinds == {"IfStmt", "WhileStmt", "CompoundStmt"} \cup ClosureKinds

\* the sets of statements, and of sequences of statements, of exactly n nodes
RECURSIVE StmtsOfSize(_, _, _), StmtSeqsOfSize(_, _, _)
StmtsOfSize(n, RVs, Ks) ==
    IF n = 0 THEN {}
    ELSE (IF n = 1 THEN {MkStmt("ReturnStmt", rv, <<>>) : rv \in RVs} ELSE {})
         \cup {MkStmt(k, NoExpr, s) : k \in Ks, s \in StmtSeqsOfSize(n - 1, RVs, Ks)}

StmtSeqsOfSize(n, RVs, Ks) ==
    IF n = 0 THEN {<<>>}
    ELSE UNION {{<<s>> \o t : s \in StmtsOfSize(i, RVs, Ks),
                              t \in StmtSeqsOfSize(n - i, RVs, Ks)} : i \in 1..n}

(***************************************************************************)
(* ReturnStatementCollector: a RecursiveASTVisitor that overrides          *)
(* VisitReturnStmt and nothing else, so the traversal is the stock         *)
(* pre-order walk over every node of the declaration, the bodies of        *)
(* closure literals included.                                              *)
(***************************************************************************)
VisitReturnStmt(Visited, RS) == Append(Visited, RS)

RECURSIVE TraverseStmt(_, _, _), TraverseStmts(_, _, _, _)
TraverseStmt(Visited, S, loc) ==
    TraverseStmts(IF S.k = "ReturnStmt"
                  THEN VisitReturnStmt(Visited, MkReturn(loc, S.rv))
                  ELSE Visited,
                  S.kids, loc, 1)

TraverseStmts(Visited, Kids, loc, i) ==
    IF i > Len(Kids) THEN Visited
    ELSE TraverseStmts(TraverseStmt(Visited, Kids[i], Append(loc, i)), Kids, loc, i + 1)

(***************************************************************************)
(* Declarations.  A chain lists the redeclarations of one entity in        *)
(* declaration order; the first is the canonical declaration.  A           *)
(* declaration has a body or is a prototype.                               *)
(***************************************************************************)
Prototype == [hasBody |-> FALSE, body |-> <<>>]

Definition(B) == [hasBody |-> TRUE, body |-> B]

\* the declaration D itself has a body
doesThisDeclarationHaveABody(C, D) == C[D].hasBody

(***************************************************************************)
(* DeclOfType->hasBody() for the class T the matcher bound.                *)
(* FunctionDecl::hasBody answers for the entity: some redeclaration has a  *)
(* body.  ObjCMethodDecl::hasBody answers for the declaration itself.      *)
(***************************************************************************)
hasBody(C, D) ==
    IF declKind = "fd"
    THEN \E r \in 1..Len(C) : doesThisDeclarationHaveABody(C, r)
    ELSE doesThisDeclarationHaveABody(C, D)

isCanonicalDecl(C, D) == D = 1

\* the redeclarations of the entity D declares
redecls(C, D) == [r \in 1..Len(C) |-> r]

getQualifiedNameAsString(C, D) == "f"

TraverseDecl(Visited, C, D) ==
    IF doesThisDeclarationHaveABody(C, D) THEN TraverseStmts(Visited, C[D].body, <<D>>, 1) ELSE Visited

(***************************************************************************)
(* returnStatementsForCanonicalDecl                                        *)
(***************************************************************************)
RECURSIVE TraverseRedecls(_, _, _, _)
TraverseRedecls(Visited, C, Rs, i) ==
    IF i > Len(Rs) THEN Visited
    ELSE TraverseRedecls(TraverseDecl(Visited, C, Rs[i]), C, Rs, i + 1)

\* the aggregator that visits every redeclaration whatever the declaration is
returnStatements_AlwaysAllRedecls(C, DeclOfType) ==
    TraverseRedecls(<<>>, C, redecls(C, DeclOfType), 1)

returnStatementsForCanonicalDecl(C, DeclOfType) ==
    LET HasBody == hasBody(C, DeclOfType)
        IsCanonical == isCanonicalDecl(C, DeclOfType)
    IN  IF ~HasBody THEN TraverseRedecls(<<>>, C, redecls(C, DeclOfType), 1)
        ELSE IF IsCanonical THEN TraverseDecl(<<>>, C, DeclOfType)
        ELSE <<>>

(***************************************************************************)
(* NullabilityAnnotatorCheck::check.  Its locals HasBody and IsCanonical   *)
(* are initialised to false and never assigned.                            *)
(***************************************************************************)
checkHasBody == FALSE

checkIsCanonical == FALSE

Line(M, N, K) == [msg |-> M, name |-> N, nk |-> K]

\* the local WeakestNullability of one call for a function or method
checkWeakestNullability(Stmts) ==
    IF ~checkHasBody /\ checkIsCanonical THEN NoVerdict
    ELSE getWeakestNullabilityForReturnStatements(Stmts)

(***************************************************************************)
(* clang::getNullabilitySpelling(kind, isContextSensitive) asserts that a  *)
(* NullableResult is not asked for as a context-sensitive keyword; check() *)
(* asks with isContextSensitive = true.  In a build with assertions the    *)
(* process aborts there; with NDEBUG the spelling is returned.             *)
(***************************************************************************)
getNullabilitySpellingAssertFails(kind, isContextSensitive) ==
    kind = "NullableResult" /\ isContextSensitive

\* one call for a function or method aborts in getNullabilitySpelling
checkAborts(Stmts) ==
    /\ ~NDEBUG
    /\ ~(~checkHasBody /\ checkIsCanonical)
    /\ getWeakestNullabilityForReturnStatements(Stmts) # NoVerdict
    /\ getNullabilitySpellingAssertFails(getWeakestNullabilityForReturnStatements(Stmts),
                                         TRUE)

\* what one call for a function or method writes to llvm::errs(); an abort
\* cuts the line short, before the spelling of the verdict
checkReport(Name, Stmts) ==
    IF ~checkHasBody /\ checkIsCanonical
    THEN <<Line("Found prototype for", Name, NoVerdict)>>
    ELSE LET W == getWeakestNullabilityForReturnStatements(Stmts)
         IN  IF W # NoVerdict
             THEN IF checkAborts(Stmts)
                  THEN <<Line("WeakestNullability of (cut short: abort)", Name, NoVerdict)>>
                  ELSE <<Line("WeakestNullability of", Name, W)>>
             ELSE IF checkHasBody THEN <<Line("has no return stmts.", Name, NoVerdict)>>
             ELSE <<>>

\* the declaration the matcher hands to the next call: declarations are
\* matched once each, in the order of the translation unit
NextMatch == Len(errs) + 1

CheckFunctionDecl ==
    /\ fn = "check"
    /\ declKind = "fd"
    /\ NextMatch <= Len(chain)
    /\ LET FD == NextMatch
           Name == getQualifiedNameAsString(chain, FD)
           Stmts == returnStatementsForCanonicalDecl(chain, FD)
       IN  /\ ReturnStatements' = Stmts
           /\ Collected' = Append(Collected, Stmts)
           /\ WeakestNullability' = checkWeakestNullability(Stmts)
           /\ errs' = Append(errs, checkReport(Name, Stmts))
           /\ fn' = IF checkAborts(Stmts) THEN "abort" ELSE fn
    /\ UNCHANGED <<chain, declKind, NDEBUG, arg, ret>>

CheckObjCMethodDecl ==
    /\ fn = "check"
    /\ declKind = "omd"
    /\ NextMatch <= Len(chain)
    /\ LET OMD == NextMatch
           Name == getQualifiedNameAsString(chain, OMD)
           Stmts == returnStatementsForCanonicalDecl(chain, OMD)
       IN  /\ ReturnStatements' = Stmts
           /\ Collected' = Append(Collected, Stmts)
           /\ WeakestNullability' = checkWeakestNullability(Stmts)
           /\ errs' = Append(errs, checkReport(Name, Stmts))
           /\ fn' = IF checkAborts(Stmts) THEN "abort" ELSE fn
    /\ UNCHANGED <<chain, declKind, NDEBUG, arg, ret>>

CheckVarDecl ==
    /\ fn = "check"
    /\ declKind = "vd"
    /\ NextMatch <= Len(chain)
    /\ LET VD == NextMatch
       IN  errs' = Append(errs, <<Line("Found global variable:",
                                       getQualifiedNameAsString(chain, VD), NoVerdict)>>)
    /\ ReturnStatements' = <<>>
    /\ Collected' = Append(Collected, <<>>)
    /\ WeakestNullability' = NoVerdict
    /\ UNCHANGED <<chain, declKind, NDEBUG, fn, arg, ret>>

\* a property declaration is matched, and check() does nothing with it
CheckObjCPropertyDecl ==
    /\ fn = "check"
    /\ declKind = "opd"
    /\ NextMatch <= Len(chain)
    /\ errs' = Append(errs, <<>>)
    /\ ReturnStatements' = <<>>
    /\ Collected' = Append(Collected, <<>>)
    /\ WeakestNullability' = NoVerdict
    /\ UNCHANGED <<chain, declKind, NDEBUG, fn, arg, ret>>

(***************************************************************************)
(* The inputs.                                                             *)
(***************************************************************************)
NilLiteral == MkExpr(<<"ImplicitCastExpr">>, "GNUNullExpr", "None", TRUE, 0)

StringLiteral == MkExpr(<<>>, "ObjCStringLiteral", "None", FALSE, 1)

NonNullParam == MkExpr(<<"ImplicitCastExpr">>, "DeclRefExpr", "NonNull", FALSE, 1)

PlainLocal == MkExpr(<<"ImplicitCastExpr">>, "DeclRefExpr", "None", FALSE, 1)

NullableResultLocal ==
    MkExpr(<<"ImplicitCastExpr">>, "DeclRefExpr", "NullableResult", FALSE, 1)

\* what the return statements of the analysed bodies return; NoExpr: a bare return
BodyReturnValues ==
    {NilLiteral, StringLiteral, NonNullParam, PlainLocal, NullableResultLocal, NoExpr}

\* the nodes that nest statements in the analysed bodies
BodyNestKinds == {"IfStmt", "BlockExpr"}

\* the bodies a definition of the analysed chain may have, by number of nodes
BodiesOfSize ==
    [n \in 0..MaxNodes |-> StmtSeqsOfSize(n, BodyReturnValues, BodyNestKinds)]

RECURSIVE NodesOfStmts(_, _)
NodesOfStmts(Kids, i) ==
    IF i > Len(Kids) THEN 0
    ELSE 1 + NodesOfStmts(Kids[i].kids, 1) + NodesOfStmts(Kids, i + 1)

RECURSIVE NodesOfChain(_, _)
NodesOfChain(C, i) ==
    IF i > Len(C) THEN 0
    ELSE NodesOfStmts(C[i].body, 1) + NodesOfChain(C, i + 1)

\* a method declared without a body and three redeclarations with bodies that
\* return a string literal, a null literal and a NonNull parameter
ProtocolExample ==
    <<Prototype,
      Definition(<<MkStmt("ReturnStmt", StringLiteral, <<>>)>>),
      Definition(<<MkStmt("ReturnStmt", NilLiteral, <<>>)>>),
      Definition(<<MkStmt("ReturnStmt", NonNullParam, <<>>)>>)>>

(***************************************************************************)
(* The translation unit is parsed before the matcher runs: the parser      *)
(* appends the declarations of the entity to its chain, and no declaration *)
(* is added once check() has been called.                                  *)
(***************************************************************************)
ParsePrototype ==
    /\ fn = "check"
    /\ errs = <<>>
    /\ Len(chain) < MaxDecls
    /\ chain' = Append(chain, Prototype)
    /\ UNCHANGED <<declKind, ReturnStatements, WeakestNullability, errs, Collected,
                   NDEBUG, fn, arg, ret>>

ParseDefinition ==
    /\ fn = "check"
    /\ errs = <<>>
    /\ declKind \in {"fd", "omd"}
    /\ Len(chain) < MaxDecls
    /\ \E n \in 0..MaxNodes :
          /\ NodesOfChain(chain, 1) + n <= MaxNodes
          /\ \E b \in BodiesOfSize[n] : chain' = Append(chain, Definition(b))
    /\ UNCHANGED <<declKind, ReturnStatements, WeakestNullability, errs, Collected,
                   NDEBUG, fn, arg, ret>>

Pending == [done |-> FALSE, val |-> <<>>]

Returned(V) == [done |-> TRUE, val |-> V]

\* nothing is parsed yet; or the translation unit is the protocol example,
\* whose four declarations the parser would not produce within MaxDecls
Init ==
    /\ fn = "check"
    /\ \/ declKind \in {"fd", "omd", "vd", "opd"} /\ chain = <<>>
       \/ declKind \in {"fd", "omd"} /\ chain = ProtocolExample
    /\ ReturnStatements = <<>>
    /\ WeakestNullability = NoVerdict
    /\ errs = <<>>
    /\ Collected = <<>>
    /\ NDEBUG \in BOOLEAN
    /\ arg = <<>>
    /\ ret = Pending

Next ==
    \/ ParsePrototype
    \/ ParseDefinition
    \/ CheckFunctionDecl
    \/ CheckObjCMethodDecl
    \/ CheckVarDecl
    \/ CheckObjCPropertyDecl

Spec == Init /\ [][Next]_vars

(***************************************************************************)
(* getNullabilityOfReturnStmt alone, on every return statement.            *)
(***************************************************************************)
ReturnStmtInputs ==
    {MkReturn(<<1, 1>>, e) : e \in Exprs \cup {NoExpr}} \cup {NullReturnStmt}

Idle ==
    /\ chain = <<>>
    /\ declKind = "none"
    /\ ReturnStatements = <<>>
    /\ WeakestNullability = NoVerdict
    /\ errs = <<>>
    /\ Collected = <<>>
    /\ NDEBUG \in BOOLEAN
    /\ ret = Pending

InitClassify ==
    /\ fn = "getNullabilityOfReturnStmt"
    /\ arg \in ReturnStmtInputs
    /\ Idle

CallGetNullabilityOfReturnStmt ==
    /\ fn = "getNullabilityOfReturnStmt"
    /\ ~ret.done
    /\ ret' = Returned(getNullabilityOfReturnStmt(arg))
    /\ errs' = Append(errs, getNullabilityOfReturnStmtLog(arg))
    /\ UNCHANGED <<chain, declKind, ReturnStatements, WeakestNullability, Collected,
                   NDEBUG, fn, arg>>

NextClassify == CallGetNullabilityOfReturnStmt

SpecClassify == InitClassify /\ [][NextClassify]_vars

(***************************************************************************)
(* getWeakestNullabilityForReturnStatements alone, on every vector of at   *)
(* most MaxReturns return statements.                                      *)
(***************************************************************************)
FoldReturnValues ==
    {NilLiteral, StringLiteral, NoExpr}
    \cup {MkExpr(<<"ImplicitCastExpr">>, "DeclRefExpr", A, FALSE, 1) : A \in Annotations}

RECURSIVE ReturnVectors(_)
ReturnVectors(n) ==
    IF n = 0 THEN {<<>>}
    ELSE {<<>>} \cup
         {Append(v, r) : v \in ReturnVectors(n - 1),
                         r \in {MkReturn(<<1, n>>, e) : e \in FoldReturnValues}
                               \cup {NullReturnStmt}}

InitMerge ==
    /\ fn = "getWeakestNullabilityForReturnStatements"
    /\ arg \in ReturnVectors(MaxReturns)
    /\ Idle

CallGetWeakestNullabilityForReturnStatements ==
    /\ fn = "getWeakestNullabilityForReturnStatements"
    /\ ~ret.done
    /\ ret' = Returned(getWeakestNullabilityForReturnStatements(arg))
    /\ errs' = Append(errs, getWeakestLog(arg, 1))
    /\ UNCHANGED <<chain, declKind, ReturnStatements, WeakestNullability, Collected,
                   NDEBUG, fn, arg>>

NextMerge == CallGetWeakestNullabilityForReturnStatements

SpecMerge == InitMerge /\ [][NextMerge]_vars

(***************************************************************************)
(* The ReturnStatementCollector alone, on one declaration with a body of   *)
(* at most MaxTreeNodes nodes.                                             *)
(***************************************************************************)
InitCollect ==
    /\ fn = "TraverseDecl"
    /\ arg \in UNION {StmtSeqsOfSize(n, {NilLiteral, StringLiteral}, NestKinds) :
                         n \in 0..MaxTreeNodes}
    /\ Idle

CallTraverseDecl ==
    /\ fn = "TraverseDecl"
    /\ ~ret.done
    /\ ret' = Returned(TraverseDecl(<<>>, <<Definition(arg)>>, 1))
    /\ UNCHANGED <<chain, declKind, ReturnStatements, WeakestNullability, errs, Collected,
                   NDEBUG, fn, arg>>

NextCollect == CallTraverseDecl

SpecCollect == InitCollect /\ [][NextCollect]_vars

(***************************************************************************)
(* getInnermostExpr alone, on every expression under at most MaxDepth      *)
(* wrapper nodes.                                                          *)
(***************************************************************************)
DeepExprs == {[c EXCEPT !.wrappers = w] : c \in Cores, w \in WrapperChains(MaxDepth)}

InitStrip ==
    /\ fn = "getInnermostExpr"
    /\ arg \in DeepExprs
    /\ Idle

CallGetInnermostExpr ==
    /\ fn = "getInnermostExpr"
    /\ ~ret.done
    /\ ret' = Returned(getInnermostExpr(arg))
    /\ UNCHANGED <<chain, declKind, ReturnStatements, WeakestNullability, errs, Collected,
                   NDEBUG, fn, arg>>

NextStrip == CallGetInnermostExpr

SpecStrip == InitStrip /\ [][NextStrip]_vars

(***************************************************************************)
(* Definitions the properties are stated with.                             *)
(***************************************************************************)
\* the classifications of the statements of a vector
Classes(Stmts) == {getNullabilityOfReturnStmt(Stmts[i]) : i \in 1..Len(Stmts)}

MergeReturned == fn = "getWeakestNullabilityForReturnStatements" /\ ret.done

\* check() has been called for a function or method (and may have aborted);
\* the last call was for the declaration LastMatch
Analysed == fn \in {"check", "abort"} /\ declKind \in {"fd", "omd"} /\ errs # <<>>

LastMatch == Len(errs)

(***************************************************************************)
(* C1, as stated: for a non-empty vector of return statements classified   *)
(* NonNull, Unspecified or Nullable, the fold answers Nullable if one is   *)
(* Nullable, else Unspecified if one is Unspecified, else NonNull.         *)
(***************************************************************************)
ThreeKinds == {"NonNull", "Unspecified", "Nullable"}

C1_NullableIsWeakest ==
    (MergeReturned /\ arg # <<>> /\ Classes(arg) \subseteq ThreeKinds)
    => ret.val = IF "Nullable" \in Classes(arg) THEN "Nullable"
                 ELSE IF "Unspecified" \in Classes(arg) THEN "Unspecified"
                 ELSE "NonNull"

(***************************************************************************)
(* C1, amended: the weakness order is NonNull, Nullable, Unspecified (and  *)
(* NullableResult, weaker than the three).  For                            *)
(* a non-empty vector of return statements classified NonNull, Unspecified *)
(* or Nullable, the fold answers Unspecified if one is Unspecified, else   *)
(* Nullable if one is Nullable, else NonNull.                              *)
(***************************************************************************)
C1_UnspecifiedIsWeakest ==
    (MergeReturned /\ arg # <<>> /\ Classes(arg) \subseteq ThreeKinds)
    => ret.val = IF "Unspecified" \in Classes(arg) THEN "Unspecified"
                 ELSE IF "Nullable" \in Classes(arg) THEN "Nullable"
                 ELSE "NonNull"

\* one Unspecified and one Nullable return statement were merged
C1_Witness ==
    /\ MergeReturned
    /\ Len(arg) = 2
    /\ Classes(arg) = {"Unspecified", "Nullable"}
    /\ ret.val = "Unspecified"

(***************************************************************************)
(* C2: when a return statement collected for a function or method          *)
(* classifies as Unspecified, the weakest nullability computed for the     *)
(* declaration is Unspecified, whatever the other statements (NonNull or   *)
(* Nullable) are.                                                          *)
(***************************************************************************)
C2_UnspecifiedBranchWins ==
    (/\ Analysed
     /\ "Unspecified" \in Classes(ReturnStatements)
     /\ Classes(ReturnStatements) \ {"Unspecified"} \subseteq {"NonNull", "Nullable"})
    => WeakestNullability = "Unspecified"

\* statements of two bodies were collected, one returning a local of
\* unannotated type, another returning nil
C2_Witness ==
    /\ Analysed
    /\ \E i, j \in 1..Len(ReturnStatements) :
          /\ Head(ReturnStatements[i].loc) # Head(ReturnStatements[j].loc)
          /\ ReturnStatements[i].rv = PlainLocal
          /\ ReturnStatements[j].rv = NilLiteral
    /\ WeakestNullability = "Unspecified"

(***************************************************************************)
(* Positions in a body, found by path and not by traversal.                *)
(***************************************************************************)
\* the non-empty paths of at most n child indices, each at most n
PathsUpTo(n) == UNION {[1..l -> 1..n] : l \in 1..n}

RECURSIVE ValidPath(_, _)
ValidPath(Kids, p) ==
    /\ p[1] \in 1..Len(Kids)
    /\ Len(p) > 1 => ValidPath(Kids[p[1]].kids, Tail(p))

RECURSIVE NodeAt(_, _)
NodeAt(Kids, p) ==
    IF Len(p) = 1 THEN Kids[p[1]] ELSE NodeAt(Kids[p[1]].kids, Tail(p))

\* the paths of the ReturnStmt nodes of a body
ReturnPaths(Kids) ==
    {p \in PathsUpTo(NodesOfStmts(Kids, 1)) :
        ValidPath(Kids, p) /\ NodeAt(Kids, p).k = "ReturnStmt"}

\* the node at p lies in the body of a closure literal
InClosure(Kids, p) ==
    \E l \in 1..(Len(p) - 1) : NodeAt(Kids, SubSeq(p, 1, l)).k \in ClosureKinds

\* the locations of the ReturnStmt nodes of the body of declaration D
ReturnLocs(C, D) ==
    IF C[D].hasBody THEN {<<D>> \o p : p \in ReturnPaths(C[D].body)} ELSE {}

\* the locations a vector of return statements points to
Locs(Stmts) == {Stmts[i].loc : i \in 1..Len(Stmts)}

\* a vector that holds exactly the return statements at the locations L of
\* the chain, each once
HoldsExactly(Stmts, L) ==
    /\ Locs(Stmts) = L
    /\ Len(Stmts) = Cardinality(L)
    /\ \A i \in 1..Len(Stmts) :
          Stmts[i] = MkReturn(Stmts[i].loc,
                              NodeAt(chain[Head(Stmts[i].loc)].body, Tail(Stmts[i].loc)).rv)

(***************************************************************************)
(* C3: for a canonical declaration with a body of its own, the aggregator  *)
(* returns exactly the return statements of that body: none of another     *)
(* redeclaration's body, and none of its own missing.                      *)
(***************************************************************************)
C3_CanonicalBodyOnly ==
    (/\ Analysed
     /\ isCanonicalDecl(chain, LastMatch)
     /\ doesThisDeclarationHaveABody(chain, LastMatch))
    => HoldsExactly(ReturnStatements, ReturnLocs(chain, LastMatch))

\* the canonical declaration has a body with a return statement, so has a
\* later redeclaration, and check() was called for the canonical one
C3_Witness ==
    /\ Analysed
    /\ LastMatch = 1
    /\ doesThisDeclarationHaveABody(chain, 1)
    /\ ReturnLocs(chain, 1) # {}
    /\ \E r \in 2..Len(chain) : ReturnLocs(chain, r) # {}
    /\ Locs(ReturnStatements) = ReturnLocs(chain, 1)

(***************************************************************************)
(* C4: for a canonical declaration without a body, the aggregator pools    *)
(* the return statements of every redeclaration that has a body, and the   *)
(* verdict reported is the weakest classification of the pool; the three   *)
(* bodies returning a string literal, a null literal and a NonNull         *)
(* parameter give Nullable.                                                *)
(***************************************************************************)
PooledLocs(C) == UNION {ReturnLocs(C, r) : r \in 1..Len(C)}

\* the classifications no classification of the vector is weaker than
WeakestOf(Stmts) ==
    {k \in Classes(Stmts) : \A j \in Classes(Stmts) : ~hasWeakerNullability(j, k)}

C4_PrototypePoolsAllBodies ==
    (/\ Analysed
     /\ isCanonicalDecl(chain, LastMatch)
     /\ ~doesThisDeclarationHaveABody(chain, LastMatch))
    => /\ HoldsExactly(ReturnStatements, PooledLocs(chain))
       /\ PooledLocs(chain) # {}
            => /\ WeakestOf(ReturnStatements) = {WeakestNullability}
               /\ errs[LastMatch] =
                     <<Line("WeakestNullability of",
                            getQualifiedNameAsString(chain, LastMatch),
                            WeakestNullability)>>
       /\ chain = ProtocolExample => WeakestNullability = "Nullable"

(***************************************************************************)
(* C5: for a declaration that is neither canonical nor has a body, the     *)
(* aggregator returns no return statement, even when other redeclarations  *)
(* have bodies with return statements.                                     *)
(***************************************************************************)
C5_InteriorPrototypeCollectsNothing ==
    (/\ Analysed
     /\ ~isCanonicalDecl(chain, LastMatch)
     /\ ~doesThisDeclarationHaveABody(chain, LastMatch))
    => ReturnStatements = <<>>

(***************************************************************************)
(* C6: every call of check() for a function or method ends by reporting,   *)
(* under the declaration's qualified name, a verdict or an explicit "has   *)
(* no return statements" marker; a declaration with a body and no return   *)
(* statement gets the marker.                                              *)
(***************************************************************************)
C6_EveryCallReports ==
    Analysed
    => \A n \in 1..Len(errs) :
          /\ Len(errs[n]) = 1
          /\ errs[n][1].name = getQualifiedNameAsString(chain, n)
          /\ \/ errs[n][1].msg = "WeakestNullability of" /\ errs[n][1].nk \in NullabilityKind
             \/ errs[n][1].msg \in {"has no return stmts.", "Found prototype for"}

(***************************************************************************)
(* C7: the collector records every return statement of the body it         *)
(* traverses, those nested in conditionals, loops and compound statements  *)
(* included, and records none that lies in a block or lambda literal       *)
(* nested in the body.                                                     *)
(***************************************************************************)
C7_ClosureReturnsNotCollected ==
    (fn = "TraverseDecl" /\ ret.done)
    => /\ \A p \in ReturnPaths(arg) : ~InClosure(arg, p) => <<1>> \o p \in Locs(ret.val)
       /\ \A i \in 1..Len(ret.val) : ~InClosure(arg, Tail(ret.val[i].loc))

(***************************************************************************)
(* C8: the fold does not depend on the order of the return statements, and *)
(* for a non-empty vector its answer is the classification of one of them  *)
(* that none of the others is weaker than.                                 *)
(***************************************************************************)
Permuted(Stmts, f) == [i \in 1..Len(Stmts) |-> Stmts[f[i]]]

C8_OrderIndependentMinimum ==
    MergeReturned
    => /\ \A f \in Permutations(1..Len(arg)) :
             getWeakestNullabilityForReturnStatements(Permuted(arg, f)) = ret.val
       /\ arg # <<>> => WeakestOf(arg) = {ret.val}

\* three return statements of three different classifications were merged,
\* the weakest of them first
C8_Witness ==
    /\ MergeReturned
    /\ Len(arg) = 3
    /\ Cardinality(Classes(arg)) = 3
    /\ getNullabilityOfReturnStmt(arg[1]) = ret.val

(***************************************************************************)
(* C9: the fold answers std::nullopt exactly when it is given no return    *)
(* statement; for a non-empty vector it answers a nullability kind, so the *)
(* absent answer is never the Unspecified that classifying a return        *)
(* statement gives.                                                        *)
(***************************************************************************)
C9_AbsentIffEmpty ==
    MergeReturned
    => /\ ret.val = NoVerdict <=> arg = <<>>
       /\ arg # <<>> => ret.val \in NullabilityKind
       /\ NoVerdict \notin NullabilityKind

\* the fold was given no return statement and answered std::nullopt
C9_Witness ==
    /\ MergeReturned
    /\ arg = <<>>
    /\ ret.val = NoVerdict

(***************************************************************************)
(* C10: getNullabilityOfReturnStmt agrees with the first-match-wins        *)
(* classifier on every returned expression: (1) a literal zero, a null     *)
(* pointer constant or a null literal, before or after the wrappers are    *)
(* stripped, is Nullable; (2) else a string literal is NonNull; (3) else a *)
(* message or call whose return type carries a nullability has it; (4)     *)
(* else a reference to a declaration whose type carries a nullability has  *)
(* it; (5) anything else is Unspecified.                                   *)
(***************************************************************************)
\* the expression below all of its wrappers
CoreOf(E) == [E EXCEPT !.wrappers = <<>>]

\* the outermost node of E is a literal zero, a null pointer constant or a
\* null literal
NullToken(E) ==
    \/ E.npc
    \/ E.wrappers = <<>> /\ E.cls = "IntegerLiteral" /\ E.val = 0
    \/ E.wrappers = <<>> /\ E.cls \in {"GNUNullExpr", "CXXNullPtrLiteralExpr"}

ReferenceClassifier(E) ==
    CASE NullToken(E) \/ NullToken(CoreOf(E)) -> "Nullable"
      [] OTHER ->
    CASE CoreOf(E).cls = "ObjCStringLiteral" -> "NonNull"
      [] OTHER ->
    CASE CoreOf(E).cls \in {"ObjCMessageExpr", "CallExpr"} /\ E.annot # "None" -> E.annot
      [] OTHER ->
    CASE CoreOf(E).cls = "DeclRefExpr" /\ E.annot # "None" -> E.annot
      [] OTHER -> "Unspecified"

C10_ClassifierMatchesReference ==
    (fn = "getNullabilityOfReturnStmt" /\ ret.done /\ ~arg.null /\ arg.rv # NoExpr)
    => ret.val = ReferenceClassifier(arg.rv)

\* a reference to a declaration of Nullable type, under a cleanup scope and an
\* implicit cast, was classified Nullable
C10_Witness ==
    /\ fn = "getNullabilityOfReturnStmt"
    /\ ret.done
    /\ ~arg.null
    /\ arg.rv = MkExpr(<<"ExprWithCleanups", "ImplicitCastExpr">>, "DeclRefExpr",
                       "Nullable", FALSE, 1)
    /\ ret.val = "Nullable"

(***************************************************************************)
(* C11: a null ReturnStmt pointer is a recoverable anomaly.  It is         *)
(* classified Unspecified, and the fold over a vector that holds null      *)
(* pointers goes on over the statements that follow and returns: its       *)
(* answer is the weakest classification of the vector, a null pointer      *)
(* counting as Unspecified (so it is Unspecified, or the NullableResult of *)
(* another statement); and every null pointer of the vector, the later     *)
(* ones as the first, is logged, and nothing else is.                      *)
(***************************************************************************)
NullPointers(Stmts) == {i \in 1..Len(Stmts) : Stmts[i].null}

\* the classifications of the statements of a vector other than Unspecified
InformedClasses(Stmts) ==
    {getNullabilityOfReturnStmt(Stmts[i]) :
        i \in {n \in 1..Len(Stmts) : ~Stmts[n].null /\ Stmts[n].rv # NoExpr}}
    \ {"Unspecified"}

C11_NullPointerRecovered ==
    (MergeReturned /\ NullPointers(arg) # {})
    => /\ ret.val = IF "NullableResult" \in InformedClasses(arg)
                    THEN "NullableResult" ELSE "Unspecified"
       /\ Len(errs) = 1
       /\ Len(errs[1]) = Cardinality(NullPointers(arg))
       /\ \A l \in 1..Len(errs[1]) :
             errs[1][l] = [msg |-> "expected a ReturnStmt pointer, got nullptr",
                           name |-> "", nk |-> NoVerdict]

\* a null pointer, a return of a NullableResult value and another null pointer
\* were merged: the fold went past the first null pointer and returned
C11_Witness ==
    /\ MergeReturned
    /\ Len(arg) = 3
    /\ arg[1].null
    /\ ~arg[2].null /\ getNullability(arg[2].rv) = "NullableResult"
    /\ arg[3].null
    /\ ret.val = "NullableResult"
    /\ Len(errs[1]) = 2

(***************************************************************************)
(* C12, as stated: a bare return is not weighed.  The verdict check()      *)
(* computes from the return statements it collected is the weakest         *)
(* classification of those that carry a value, whether or not bare returns *)
(* were collected with them; and when return statements were collected and *)
(* none carries a value, no verdict is reported.                           *)
(***************************************************************************)
CarriesValue(RS) == ~RS.null /\ RS.rv # NoExpr

ValueCarrying(Stmts) == SelectSeq(Stmts, CarriesValue)

BareReturns(Stmts) == {i \in 1..Len(Stmts) : ~Stmts[i].null /\ Stmts[i].rv = NoExpr}

C12_BareReturnNotWeighed ==
    Analysed
    => /\ ValueCarrying(ReturnStatements) # <<>>
            => WeakestOf(ValueCarrying(ReturnStatements)) = {WeakestNullability}
       /\ (ReturnStatements # <<>> /\ ValueCarrying(ReturnStatements) = <<>>)
            => \A l \in 1..Len(errs[LastMatch]) :
                  errs[LastMatch][l].msg # "WeakestNullability of"

(***************************************************************************)
(* C12, amended: a bare return classifies as Unspecified and is weighed as *)
(* any Unspecified return statement is.  For every call of check(): when a *)
(* bare return is among the return statements the call collected, its      *)
(* verdict is never NonNull or Nullable: it is Unspecified, or             *)
(* NullableResult when a collected statement that carries a value          *)
(* classifies so; hence Unspecified when none carries a value.  The        *)
(* verdict is reported under the declaration's name, except that a build   *)
(* with assertions aborts on reporting NullableResult.  A call that        *)
(* collected nothing reports no verdict, so a body of bare returns that no *)
(* call collects (that of a function whose canonical declaration is a      *)
(* prototype) gets none.                                                   *)
(***************************************************************************)
\* the verdict of a call that collected the return statements Stmts with a
\* bare return among them
VerdictWithBareReturn(Stmts) ==
    IF "NullableResult" \in InformedClasses(Stmts) THEN "NullableResult"
    ELSE "Unspecified"

\* the n-th call aborted
Aborted(n) == fn = "abort" /\ n = Len(errs)

C12_BareReturnIsUnspecified ==
    Analysed
    => /\ \A n \in 1..Len(Collected) :
             /\ BareReturns(Collected[n]) # {}
                  => /\ \A i \in BareReturns(Collected[n]) :
                           getNullabilityOfReturnStmt(Collected[n][i]) = "Unspecified"
                     /\ Aborted(n) <=> (/\ ~NDEBUG
                                        /\ VerdictWithBareReturn(Collected[n]) =
                                              "NullableResult")
                     /\ ~Aborted(n)
                          => errs[n] = <<Line("WeakestNullability of",
                                              getQualifiedNameAsString(chain, n),
                                              VerdictWithBareReturn(Collected[n]))>>
             /\ Collected[n] = <<>> => errs[n] = <<>>
       /\ BareReturns(ReturnStatements) # {}
            => WeakestNullability = VerdictWithBareReturn(ReturnStatements)
       /\ \A D \in 1..Len(chain) :
             (/\ declKind = "fd"
              /\ ~doesThisDeclarationHaveABody(chain, 1)
              /\ ReturnLocs(chain, D) # {})
             => \A n \in 1..Len(Collected) :
                   Locs(Collected[n]) \cap ReturnLocs(chain, D) = {} /\ errs[n] = <<>>

\* a body with a return of a string literal and a bare return was analysed
C12_Witness ==
    /\ Analysed
    /\ LastMatch = 1
    /\ Len(ReturnStatements) = 2
    /\ ReturnStatements[1].rv = StringLiteral
    /\ ReturnStatements[2].rv = NoExpr
    /\ Head(ReturnStatements[1].loc) = Head(ReturnStatements[2].loc)
    /\ WeakestNullability = "Unspecified"

(***************************************************************************)
(* C13: when check() is called once for each declaration of a chain, no    *)
(* return statement is collected by two of the calls, nor twice by one:    *)
(* the return statements of a body are collected by one call at most,      *)
(* whatever the chain is, with several body-less declarations or not.      *)
(***************************************************************************)
C13_NoBodyCollectedTwice ==
    Analysed
    => /\ \A n \in 1..Len(Collected) :
             Len(Collected[n]) = Cardinality(Locs(Collected[n]))
       /\ \A m, n \in 1..Len(Collected) :
             m # n => Locs(Collected[m]) \cap Locs(Collected[n]) = {}

(***************************************************************************)
(* C14: getInnermostExpr strips the wrappers to a fixed point.  On a core  *)
(* expression under implicit casts, cleanup scopes and temporary           *)
(* materializations, in any order and number, it returns the core; and the *)
(* node it returns is never an implicit cast, a cleanup scope or a         *)
(* temporary materialization.                                              *)
(***************************************************************************)
ValuePreservingWrappers ==
    {"ImplicitCastExpr", "ExprWithCleanups", "MaterializeTemporaryExpr"}

C14_InnermostIsCore ==
    (fn = "getInnermostExpr" /\ ret.done)
    => /\ NodeClass(ret.val) \notin ValuePreservingWrappers
       /\ (\A l \in 1..Len(arg.wrappers) : arg.wrappers[l] \in ValuePreservingWrappers)
            => ret.val = CoreOf(arg)

\* a reference to a declaration under a temporary materialization, a cleanup
\* scope, an implicit cast and another temporary materialization was stripped
C14_Witness ==
    /\ fn = "getInnermostExpr"
    /\ ret.done
    /\ arg.wrappers = <<"MaterializeTemporaryExpr", "ExprWithCleanups",
                        "ImplicitCastExpr", "MaterializeTemporaryExpr">>
    /\ arg.cls = "DeclRefExpr"
    /\ ret.val = CoreOf(arg)
====
